---- MODULE Spec2Model ----
(***************************************************************************)
(* MyTransporter: transport-request lifecycle and bid resolution.          *)
(*                                                                         *)
(* The model follows the Express route handlers (registerRoutes) and the   *)
(* DatabaseStorage methods they call.  Every `await storage.x(...)` of a   *)
(* handler is one atomic database statement; a handler that awaits several *)
(* statements is a sequence of steps, and steps of handlers running for    *)
(* different sessions interleave freely (Node's event loop).               *)
(***************************************************************************)
EXTENDS Integers, Sequences, FiniteSets, TLC

\* ------------------------------------------------------------------ bounds
\* Spec: every operation, two sessions.  Rows of transport_requests, rows of
\* bids, and admin calls (assign, status, reassign) invoked in one behaviour.
MaxRequests == 2
MaxBids == 2
MaxCalls == 2

\* SpecAssign: requests, bids and assign calls only, more rows.
WideRequests == 2
WideBids == 3
WideCalls == 1

\* SpecDeep: every operation, fewer rows, longer behaviours.
DeepRequests == 2
DeepBids == 1
DeepCalls == 3

\* SpecReopen: requests, bids, assign and reassign calls.
ReopenRequests == 2
ReopenBids == 3
ReopenCalls == 2

\* SpecViews: users of every role post, bid and read; status calls.
ViewRequests == 2
ViewBids == 1
ViewCalls == 1

\* SpecRoles: bodies in and out of range, callers of every role for the admin
\* handlers; status calls of admins.
RoleRequests == 1
RoleBids == 2
RoleCalls == 1

\* SpecAuth: rows of users.
MaxUsers == 2

\* SpecGps: rows of gps_tracking, ticks of the database clock, sockets the
\* view creates, messages waiting in one socket.
MaxSamples == 3
MaxTime == 2
MaxSockets == 2
MaxInbox == 2

\* ------------------------------------------------------------ identifiers
\* SQL NULL of transport_requests.assigned_driver_id (ids are serial, >= 1).
Null == 0
\* The result of parseInt on a string that is not a number.
NaN == -1

\* users.id of the registered accounts, by users.role.  The role column is a
\* varchar any string can be registered in: Others hold such a role.
Clients == {1, 6}
Drivers == {2, 3}
Admins == {4, 5}
Others == {7}
Users == Clients \cup Drivers \cup Admins \cup Others

RoleOf(u) ==
    IF u \in Clients THEN "client"
    ELSE IF u \in Drivers THEN "driver"
    ELSE IF u \in Admins THEN "admin"
    ELSE "none"

\* The values the status column of a request takes in the handlers.
validStatuses == {"pending", "assigned", "in_progress", "completed", "cancelled"}
\* req.body.status as a caller may send it.
StatusInputs == validStatuses \cup {"bogus"}
\* parseInt(req.params.id), req.body.requestId: ids of rows that exist or do
\* not exist (yet), n being the rows the table may hold.
RequestIdInputs(n) == 1..n
\* parseInt(req.body.driverId).
DriverIdInputs == Drivers \cup {NaN}
\* req.body.budget of POST /api/transport-requests: a number, or (NaN) a value
\* z.number() refuses.
BudgetInputs == {100, 200}
\* A key that req.body does not carry.
Absent == "absent"
\* The JavaScript value undefined in a numeric property of a response.
Undefined == -2
\* req.body of POST /api/transport-requests: the budget, and keys the form
\* does not send (status, clientId) that a caller may add.
CreateBodies ==
    [budget : BudgetInputs \cup {NaN},
     status : {Absent, "completed"},
     clientId : {Null, 6}]
\* The bodies the client form sends, and the client who sends them, in the
\* specifications about the admin handlers.
FormBodies == {[budget |-> 100, status |-> Absent, clientId |-> Null]}
FormClients == {1}
\* Bodies of the form with a budget in range and out of range.
RangeBodies == [budget : {100, 0}, status : {Absent}, clientId : {Null}]
\* req.body of POST /api/bids: the request, the amount (a number, or (NaN) no
\* amount at all) and a driverId the form does not send, for requests 1..n.
BidBodies(n) ==
    [requestId : RequestIdInputs(n), amount : {50, 0, NaN}, driverId : {Null, 3}]
\* The bodies the bid form sends.
FormBidBodies(n) ==
    [requestId : RequestIdInputs(n), amount : {50}, driverId : {Null}]

VARIABLES
    requests,   \* transport_requests: row id |-> [clientId, budget, status,
                \*                                  assignedDriverId]
    bids,       \* bids: row id |-> [requestId, driverId, amount, status]
    calls,      \* per session: the admin handler it is running, if any
    resp,       \* the response the last step sent, if it sent one
    nCalls,     \* calls of the admin handlers that passed the role check
    pre,        \* the tables as they were when pre.by invoked its call,
                \* kept only while no other session has taken a step since
    users,      \* users: row id |-> [email, password, role]
    sessions,   \* per browser: req.session.userId, Null when there is none
    gpsTracking,    \* gps_tracking: row id |-> [requestId, driverId, timestamp]
    now,        \* the clock of the database
    ingest,     \* per driver: the POST /api/gps-tracking it is running, if any
    subscriptions,  \* the hub's registry: pairs <<connection, requestId>>
    sockets,    \* the WebSockets the tracking view created, oldest first
    trackingMap,    \* the TrackingMap component: its prop and its state
    event       \* the last step of the auth routes, the hub or the view

market == <<requests, bids, calls, resp, nCalls, pre>>
auth == <<users, sessions>>
gps == <<gpsTracking, now, ingest, subscriptions, sockets, trackingMap>>
others == <<auth, gps, event>>
vars == <<market, auth, gps, event>>

\* ------------------------------------------------------- JavaScript values
\* `if (assignedDriverId)`: NaN, 0, null and undefined are falsy.
Truthy(x) == x # NaN /\ x # Null /\ x # 0

\* `a === b` on numbers: NaN is equal to nothing, itself included.
StrictEq(a, b) == a # NaN /\ b # NaN /\ a = b

\* ----------------------------------------------------------- DatabaseStorage
\* db.insert(transportRequests).values({...request}).returning(): the id is the
\* next serial; status and assigned_driver_id take the column defaults unless
\* request carries them.
createTransportRequest(reqs, request) ==
    Append(reqs, request @@ [status |-> "pending", assignedDriverId |-> Null])

\* SELECT * FROM transport_requests ORDER BY created_at DESC: the ids, newest
\* first.
RECURSIVE RequestIdsDesc(_, _)
RequestIdsDesc(reqs, n) ==
    IF n = 0 THEN <<>> ELSE <<n>> \o RequestIdsDesc(reqs, n - 1)

getTransportRequests(reqs) == RequestIdsDesc(reqs, Len(reqs))

\* SELECT * FROM transport_requests WHERE client_id = clientId
\* ORDER BY created_at DESC.
getTransportRequestsForClient(reqs, clientId) ==
    SelectSeq(getTransportRequests(reqs), LAMBDA i : reqs[i].clientId = clientId)

\* db.select().from(transportRequests).where(eq(id)): a row or undefined.
getTransportRequestById(reqs, id) ==
    IF id \in DOMAIN reqs THEN {reqs[id]} ELSE {}

\* The update writing the driver column whatever assignedDriverId is.
updateTransportRequestStatus_SetsDriver(reqs, id, status, assignedDriverId) ==
    IF id \in DOMAIN reqs
    THEN [reqs EXCEPT ![id] =
            [@ EXCEPT !.status = status,
                      !.assignedDriverId = assignedDriverId]]
    ELSE reqs

\* UPDATE transport_requests SET status [, assigned_driver_id] WHERE id = id.
\* The driver column is part of the update only for a truthy assignedDriverId;
\* no row matches an unknown id.
updateTransportRequestStatus(reqs, id, status, assignedDriverId) ==
    IF id \in DOMAIN reqs
    THEN [reqs EXCEPT ![id] =
            [@ EXCEPT !.status = status,
                      !.assignedDriverId =
                          IF Truthy(assignedDriverId) THEN assignedDriverId ELSE @]]
    ELSE reqs

\* db.insert(bids).values(bid).returning(): status takes the column default.
\* No foreign key constrains request_id or driver_id.
createBid(bs, bid) ==
    Append(bs, bid @@ [status |-> "pending"])

RECURSIVE BidIdsDesc(_, _, _)
\* The ids of the bids of requestId among rows 1..n, newest first.
BidIdsDesc(bs, requestId, n) ==
    IF n = 0 THEN <<>>
    ELSE IF bs[n].requestId = requestId
         THEN <<n>> \o BidIdsDesc(bs, requestId, n - 1)
         ELSE BidIdsDesc(bs, requestId, n - 1)

RECURSIVE BidIdsDescAll(_, _)
\* The ids of the rows 1..n of bids, newest first.
BidIdsDescAll(bs, n) ==
    IF n = 0 THEN <<>> ELSE <<n>> \o BidIdsDescAll(bs, n - 1)

\* SELECT * FROM bids WHERE request_id = requestId ORDER BY created_at DESC.
getBidsForRequest(bs, requestId) == BidIdsDesc(bs, requestId, Len(bs))

\* SELECT * FROM bids WHERE driver_id = driverId ORDER BY created_at DESC.
getBidsForDriver(bs, driverId) ==
    SelectSeq(BidIdsDescAll(bs, Len(bs)), LAMBDA i : bs[i].driverId = driverId)

\* UPDATE bids SET status WHERE id = id.
updateBidStatus(bs, id, status) ==
    IF id \in DOMAIN bs THEN [bs EXCEPT ![id].status = status] ELSE bs

\* reassignTransportRequest, first statement:
\* UPDATE transport_requests SET status = 'pending', assigned_driver_id = NULL.
reassignRequestRow(reqs, requestId) ==
    IF requestId \in DOMAIN reqs
    THEN [reqs EXCEPT ![requestId] =
            [@ EXCEPT !.status = "pending", !.assignedDriverId = Null]]
    ELSE reqs

\* The second statement with its WHERE clause lost.
reassignRejectBids_AllRequests(bs, requestId) ==
    [i \in DOMAIN bs |-> [bs[i] EXCEPT !.status = "rejected"]]

\* reassignTransportRequest, second statement:
\* UPDATE bids SET status = 'rejected' WHERE request_id = requestId.
reassignRejectBids(bs, requestId) ==
    [i \in DOMAIN bs |->
        IF bs[i].requestId = requestId
        THEN [bs[i] EXCEPT !.status = "rejected"]
        ELSE bs[i]]

\* ------------------------------------------------------------ route handlers
\* The loop body with its else branch lost: every bid is accepted.
AssignBidStatus_NoElse(bid, driverId) == "accepted"

\* PATCH /assign, the loop body: the status a bid of the request is given.
AssignBidStatus(bid, driverId) ==
    IF StrictEq(bid.driverId, driverId) THEN "accepted" ELSE "rejected"

\* The status checks without the lookup of the request.
StatusCheck_NoLookup(reqs, requestId, status) ==
    IF status \notin validStatuses THEN 400 ELSE 200

\* PATCH /status: the response the checks before the write decide, 200 when
\* the write goes ahead.
StatusCheck(reqs, requestId, status) ==
    IF status \notin validStatuses THEN 400
    ELSE IF getTransportRequestById(reqs, requestId) = {} THEN 404
    ELSE 200

\* PATCH /reassign: the response the checks before the write decide, 200 when
\* reassignTransportRequest goes ahead.
ReassignCheck(reqs, requestId) ==
    IF getTransportRequestById(reqs, requestId) = {} THEN 404
    ELSE IF reqs[requestId].status # "assigned"
            /\ reqs[requestId].status # "in_progress" THEN 400
    ELSE 200

\* The status of a request as a reader would see it, "none" for no row.
StatusOf(reqs, requestId) ==
    IF requestId \in DOMAIN reqs THEN reqs[requestId].status ELSE "none"

\* A session that runs no handler.
Idle ==
    [op |-> "none", pc |-> "idle", rid |-> 0, driverId |-> Null,
     todo |-> <<>>, rival |-> FALSE, lostTo |-> Null]

\* No response: the last step was not the end of a handler.
NoResp ==
    [op |-> "none", by |-> 0, rid |-> 0, driverId |-> Null,
     status |-> "none", code |-> 0, rival |-> FALSE, lostTo |-> Null,
     body |-> <<>>]

\* The response of a handler that takes no driver and races with none: user
\* by asked op about request rid and got code with body.  The status of a
\* response is the req.body.status it answers.
Answer(op, by, rid, code, body) ==
    [NoResp EXCEPT !.op = op, !.by = by, !.rid = rid, !.code = code,
                   !.body = body]

NoPre == [by |-> 0, requests |-> <<>>, bids |-> <<>>]

\* pre after a step of session a that is not an invocation.
KeepPre(a) == IF pre.by = a THEN pre ELSE NoPre

InFlight(a) == calls[a].pc # "idle"

\* Driver d has a bid for request r in the table bs.
HasBid(bs, r, d) == \E b \in DOMAIN bs : bs[b].requestId = r /\ bs[b].driverId = d

\* Two assign calls race when both are in flight for the same request before
\* either has written, the request being pending, for two different drivers
\* who each have a bid for it.
Races(b, requestId, driverId) ==
    /\ StatusOf(requests, requestId) = "pending"
    /\ calls[b].op = "assign"
    /\ calls[b].pc = "write"
    /\ calls[b].rid = requestId
    /\ calls[b].driverId # driverId
    /\ HasBid(bids, requestId, driverId)
    /\ HasBid(bids, requestId, calls[b].driverId)

\* res.json(request) of the assign handler of session a: the handler ends, and
\* the racing calls still in flight have lost to it.
AssignRespond(a, cs) ==
    [b \in Users |->
        IF b = a THEN Idle
        ELSE IF cs[a].rival /\ cs[b].rival /\ cs[b].op = "assign"
                /\ cs[b].rid = cs[a].rid /\ cs[b].lostTo = Null
             THEN [cs[b] EXCEPT !.lostTo = cs[a].driverId]
             ELSE cs[b]]

AssignResp(a) ==
    [op |-> "assign", by |-> a, rid |-> calls[a].rid,
     driverId |-> calls[a].driverId, status |-> "none", code |-> 200,
     rival |-> calls[a].rival, lostTo |-> calls[a].lostTo, body |-> <<>>]

\* The values the create handler hands to storage.createTransportRequest with
\* the owner taken from the body when the body names one.
CreateValues_FromBody(user, body) ==
    [budget |-> body.budget,
     clientId |-> IF body.clientId = Null THEN user ELSE body.clientId]

\* POST /api/transport-requests: the values handed to
\* storage.createTransportRequest, the fields of the parsed body one by one
\* and clientId: user.id.
CreateValues(user, body) ==
    [budget |-> body.budget, clientId |-> user]

\* POST /api/transport-requests: the response the role check and the parse of
\* the body decide, 200 when the insert goes ahead.
CreateCheck(user, body) ==
    IF RoleOf(user) # "client" THEN 403
    ELSE IF body.budget = NaN THEN 500
    ELSE 200

\* The role check of POST /api/bids refusing every caller.
BidCheck_Nobody(user) == 403

\* POST /api/bids: the response the role check decides, 200 when the insert
\* goes ahead.
BidCheck(user) == IF RoleOf(user) # "driver" THEN 403 ELSE 200

\* The values of the bid with the driver taken from the body when the body
\* names one.
BidValues_FromBody(user, body) ==
    [requestId |-> body.requestId, amount |-> body.amount,
     driverId |-> IF body.driverId = Null THEN user ELSE body.driverId]

\* POST /api/bids: bidToCreate, the fields of the body one by one and
\* driverId: user.id.
BidValues(user, body) ==
    [requestId |-> body.requestId, amount |-> body.amount, driverId |-> user]

\* The rows ids name in table, each with its id, as the handlers hold them.
Rows(table, ids) == [j \in 1..Len(ids) |-> [id |-> ids[j]] @@ table[ids[j]]]

\* The driver's copy of a request with the budget left in.
HideBudget_Keep(row) == row

\* ({ ...req, budget: undefined })
HideBudget(row) == [row EXCEPT !.budget = Undefined]

\* res.json(rows): JSON.stringify leaves out the properties whose value is
\* undefined.
Json(rows) ==
    [j \in 1..Len(rows) |->
        [k \in {h \in DOMAIN rows[j] :
                   ~(h = "budget" /\ rows[j][h] = Undefined)} |-> rows[j][k]]]

\* The role filter of the request list with the driver's filter lost.
ListRequestIds_NoFilter(reqs, user) ==
    IF RoleOf(user) = "client"
    THEN getTransportRequestsForClient(reqs, user)
    ELSE getTransportRequests(reqs)

\* GET /api/transport-requests: the ids of the rows the caller is sent.
ListRequestIds(reqs, user) ==
    IF RoleOf(user) = "client"
    THEN getTransportRequestsForClient(reqs, user)
    ELSE IF RoleOf(user) = "driver"
    THEN SelectSeq(getTransportRequests(reqs),
                   LAMBDA i : reqs[i].status = "pending")
    ELSE getTransportRequests(reqs)

\* GET /api/transport-requests: the response to user.
ListRequestsResponse(reqs, user) ==
    IF RoleOf(user) \notin {"client", "driver", "admin"}
    THEN Answer("list", user, 0, 403, <<>>)
    ELSE LET rows == Rows(reqs, ListRequestIds(reqs, user)) IN
         Answer("list", user, 0, 200,
                Json(IF RoleOf(user) = "driver"
                     THEN [j \in 1..Len(rows) |-> HideBudget(rows[j])]
                     ELSE rows))

\* GET /api/transport-requests/:id: the response to user.
GetRequestResponse(reqs, user, requestId) ==
    IF getTransportRequestById(reqs, requestId) = {}
    THEN Answer("get", user, requestId, 404, <<>>)
    ELSE IF RoleOf(user) = "client" /\ reqs[requestId].clientId # user
    THEN Answer("get", user, requestId, 403, <<>>)
    ELSE LET rows == Rows(reqs, <<requestId>>) IN
         Answer("get", user, requestId, 200,
                Json(IF RoleOf(user) = "driver"
                     THEN <<HideBudget(rows[1])>>
                     ELSE rows))

\* The checks of the bids listing with the lookup of the request moved behind
\* the role checks.
BidsForRequestCheck_RoleFirst(reqs, user, requestId) ==
    IF RoleOf(user) = "driver" THEN 403
    ELSE IF getTransportRequestById(reqs, requestId) = {} THEN 404
    ELSE IF RoleOf(user) = "client" /\ reqs[requestId].clientId # user THEN 403
    ELSE 200

\* GET /api/bids/request/:requestId: the response the checks decide, 200 when
\* the bids are read.
BidsForRequestCheck(reqs, user, requestId) ==
    IF getTransportRequestById(reqs, requestId) = {} THEN 404
    ELSE IF RoleOf(user) = "client" /\ reqs[requestId].clientId # user THEN 403
    ELSE IF RoleOf(user) = "driver" THEN 403
    ELSE 200

\* GET /api/bids/request/:requestId: the response to user.
BidsForRequestResponse(reqs, bs, user, requestId) ==
    LET code == BidsForRequestCheck(reqs, user, requestId) IN
    Answer("bids", user, requestId, code,
           IF code = 200
           THEN Json(Rows(bs, getBidsForRequest(bs, requestId)))
           ELSE <<>>)

\* GET /api/bids/driver: the response to user.
BidsForDriverResponse(bs, user) ==
    IF RoleOf(user) # "driver"
    THEN Answer("mybids", user, 0, 403, <<>>)
    ELSE Answer("mybids", user, 0, 200,
                Json(Rows(bs, getBidsForDriver(bs, user))))

\* ---------------------------------------------------------------- accounts
\* Browsers, each with its own session cookie.
Browsers == {1, 2}
Emails == {"a@x.io", "b@x.io"}
\* req.body of POST /api/auth/register: role is optional in the insert schema.
RegisterBodies ==
    [email : Emails, password : {"secret1", "short"},
     role : {Absent, "driver", "admin"}]
\* req.body of POST /api/auth/login.
LoginBodies == [email : Emails, password : {"secret1", "secret2"}]

\* createHash('sha256').update(password).digest('hex'): one digest per
\* password, never the password.
hashPassword(password) == <<"sha256", password>>

verifyPassword(password, hash) == hashPassword(password) = hash

\* db.select().from(users).where(eq(users.email, email)): the ids that match.
getUserByEmail(us, email) == {u \in DOMAIN us : us[u].email = email}

getUserById(us, id) == {u \in DOMAIN us : u = id}

\* db.insert(users).values(userData).returning(): role takes the column
\* default when userData has none.
createUser(us, userData) == Append(us, userData @@ [role |-> "client"])

\* registerUserSchema.parse(req.body) and the existing-user check: the
\* response they decide, 200 when the handler goes on.
RegisterCheck(us, body) ==
    IF Len(body.password) < 6 THEN 400
    ELSE IF getUserByEmail(us, body.email) # {} THEN 400
    ELSE 200

\* What the register handler hands to storage.createUser.
RegisterValues(body) ==
    IF body.role = Absent
    THEN [email |-> body.email, password |-> hashPassword(body.password)]
    ELSE [email |-> body.email, password |-> hashPassword(body.password),
          role |-> body.role]

NoEvent == [op |-> "none", by |-> Null, code |-> Null]

\* --------------------------------------------------------------- gps tracking
\* The requests drivers report positions for and views are opened on.
TrackedRequests == {1, 2}

\* db.insert(gpsTracking).values(tracking).returning(): the timestamp column
\* takes the time of the insert.
createGpsTracking(log, tracking, time) ==
    Append(log, tracking @@ [timestamp |-> time])

\* A row as a select returns it.
GpsRow(log, i) == log[i] @@ [id |-> i]

RECURSIVE OrderedByTimestampDesc_Asc(_, _)
\* The rows ids of log oldest first.
OrderedByTimestampDesc_Asc(log, ids) ==
    IF ids = {} THEN {<<>>}
    ELSE LET first == {i \in ids :
                          \A j \in ids : log[j].timestamp >= log[i].timestamp}
         IN UNION {{<<GpsRow(log, i)>> \o rest :
                        rest \in OrderedByTimestampDesc_Asc(log, ids \ {i})} :
                   i \in first}

RECURSIVE OrderedByTimestampDesc(_, _)
\* .orderBy(desc(gpsTracking.timestamp)) over the rows ids of log: every
\* order the database may return, rows of one timestamp coming in any order.
OrderedByTimestampDesc(log, ids) ==
    IF ids = {} THEN {<<>>}
    ELSE LET first == {i \in ids :
                          \A j \in ids : log[j].timestamp <= log[i].timestamp}
         IN UNION {{<<GpsRow(log, i)>> \o rest :
                        rest \in OrderedByTimestampDesc(log, ids \ {i})} :
                   i \in first}

\* The results the select of getGpsTrackingForRequest may return.
getGpsTrackingForRequest(log, requestId) ==
    OrderedByTimestampDesc(
        log, {i \in DOMAIN log : log[i].requestId = requestId})

\* The results of the same select with .limit(1): one row, or none.
getLatestGpsTrackingForRequest(log, requestId) ==
    {IF h = <<>> THEN <<>> ELSE <<h[1]>> :
         h \in getGpsTrackingForRequest(log, requestId)}

\* No POST /api/gps-tracking running for a driver; pc is the step of
\* PublishSteps the handler takes next.
IdleIngest == [pc |-> Null, requestId |-> Null, row |-> Null]

\* The ingestion handler broadcasting before it appends.
PublishSteps_BroadcastFirst == <<"broadcast", "append">>

\* The ingestion handler: the sample is appended to the log, then broadcast.
PublishSteps == <<"append", "broadcast">>

\* {type: location_update, requestId, ...sample}.
LocationUpdate(sample) == sample @@ [type |-> "location_update"]

\* The hub sends msg to every connection subscribed to its requestId.
Broadcast(socks, subs, msg) ==
    [s \in DOMAIN socks |->
        IF <<s, msg.requestId>> \in subs /\ socks[s].connected
        THEN [socks[s] EXCEPT !.inbox = Append(@, msg)]
        ELSE socks[s]]

\* new WebSocket(wsUrl) in the effect that ran for requestId.
NewSocket(requestId) ==
    [requestId |-> requestId, readyState |-> "connecting",
     outbox |-> <<>>, inbox |-> <<>>, connected |-> TRUE]

\* useState<GpsTracking | null>(null).
NoLocation == [type |-> "none"]

\* const latestLocation = liveLocation || (trackingHistory[0] or null).
latestLocation(view) ==
    IF view.liveLocation # NoLocation THEN view.liveLocation
    ELSE IF Len(view.trackingHistory) > 0 THEN view.trackingHistory[1]
    ELSE NoLocation

\* websocket.onmessage of the socket created for requestId: what liveLocation
\* is after data arrived.
onmessage(liveLocation, requestId, data) ==
    IF data.type = "location_update" /\ data.requestId = requestId
    THEN data
    ELSE liveLocation

\* ------------------------------------------------------------------- actions
Init ==
    /\ requests = <<>>
    /\ bids = <<>>
    /\ calls = [u \in Users |-> Idle]
    /\ resp = NoResp
    /\ nCalls = 0
    /\ pre = NoPre
    /\ users = <<>>
    /\ sessions = [b \in Browsers |-> Null]
    /\ gpsTracking = <<>>
    /\ now = 1
    /\ ingest = [d \in Drivers |-> IdleIngest]
    /\ subscriptions = {}
    /\ sockets = <<NewSocket(1)>>
    /\ trackingMap = [requestId |-> 1, ws |-> 1, liveLocation |-> NoLocation,
                      trackingHistory |-> <<>>]
    /\ event = NoEvent

\* POST /api/transport-requests by user, with req.body = body.
CreateRequest(user, body) ==
    /\ UNCHANGED others
    /\ LET code == CreateCheck(user, body) IN
        /\ requests' = IF code = 200
                       THEN createTransportRequest(
                                requests, CreateValues(user, body))
                       ELSE requests
        /\ resp' = [Answer("create", user,
                           IF code = 200 THEN Len(requests) + 1 ELSE 0,
                           code, <<>>)
                        EXCEPT !.status = body.status]
    /\ pre' = [by |-> user, requests |-> requests, bids |-> bids]
    /\ UNCHANGED <<bids, calls, nCalls>>

\* POST /api/bids by user, with req.body = body: requestId and amount are
\* taken from the body as they are (amount.toString() throws when there is no
\* amount), the driver is the caller.
SubmitBid(user, body) ==
    /\ UNCHANGED others
    /\ LET code == IF BidCheck(user) # 200 THEN BidCheck(user)
                   ELSE IF body.amount = NaN THEN 500
                   ELSE 200
       IN
        /\ bids' = IF code = 200
                   THEN createBid(bids, BidValues(user, body))
                   ELSE bids
        /\ resp' = Answer("bid", user, body.requestId, code, <<>>)
    /\ pre' = [by |-> user, requests |-> requests, bids |-> bids]
    /\ UNCHANGED <<requests, calls, nCalls>>

\* GET /api/transport-requests by user.
ListRequests(user) ==
    /\ UNCHANGED others
    /\ resp' = ListRequestsResponse(requests, user)
    /\ pre' = NoPre
    /\ UNCHANGED <<requests, bids, calls, nCalls>>

\* GET /api/transport-requests/:id by user.
GetRequest(user, requestId) ==
    /\ UNCHANGED others
    /\ resp' = GetRequestResponse(requests, user, requestId)
    /\ pre' = NoPre
    /\ UNCHANGED <<requests, bids, calls, nCalls>>

\* GET /api/bids/request/:requestId by user.  The request is read, then the
\* bids: no handler deletes a request or changes its client, so the checks
\* decide the same at the read of the bids, and the step is that read.
ListBidsForRequest(user, requestId) ==
    /\ UNCHANGED others
    /\ resp' = BidsForRequestResponse(requests, bids, user, requestId)
    /\ pre' = NoPre
    /\ UNCHANGED <<requests, bids, calls, nCalls>>

\* GET /api/bids/driver by user.
ListBidsForDriver(user) ==
    /\ UNCHANGED others
    /\ resp' = BidsForDriverResponse(bids, user)
    /\ pre' = NoPre
    /\ UNCHANGED <<requests, bids, calls, nCalls>>

\* The role check of the admin handlers letting every caller through.
AdminCheck_Anyone(user) == 200

\* PATCH /assign, /status, /reassign: the response the role check decides, 200
\* when the handler goes on.
AdminCheck(user) == IF RoleOf(user) # "admin" THEN 403 ELSE 200

\* PATCH /api/transport-requests/:id/assign arrives for session a: the role
\* check refuses the caller, or the handler issues its first statement.
AssignInvoke(a, requestId, driverId) ==
    /\ UNCHANGED others
    /\ ~InFlight(a)
    /\ IF AdminCheck(a) # 200
       THEN /\ resp' = [Answer("assign", a, requestId, AdminCheck(a), <<>>)
                            EXCEPT !.driverId = driverId]
            /\ UNCHANGED <<calls, nCalls>>
       ELSE /\ LET racing ==
                       {b \in Admins \ {a} : Races(b, requestId, driverId)}
               IN
                calls' = [b \in Users |->
                    IF b = a
                    THEN [op |-> "assign", pc |-> "write", rid |-> requestId,
                          driverId |-> driverId, todo |-> <<>>,
                          rival |-> racing # {}, lostTo |-> Null]
                    ELSE IF b \in racing THEN [calls[b] EXCEPT !.rival = TRUE]
                    ELSE calls[b]]
            /\ nCalls' = nCalls + 1
            /\ resp' = NoResp
    /\ pre' = [by |-> a, requests |-> requests, bids |-> bids]
    /\ UNCHANGED <<requests, bids>>

\* await storage.updateTransportRequestStatus(requestId, 'assigned', driverId)
AssignWrite(a) ==
    /\ UNCHANGED others
    /\ calls[a].op = "assign"
    /\ calls[a].pc = "write"
    /\ requests' = updateTransportRequestStatus(
                       requests, calls[a].rid, "assigned", calls[a].driverId)
    /\ calls' = [calls EXCEPT ![a].pc = "bids"]
    /\ pre' = KeepPre(a)
    /\ resp' = NoResp
    /\ UNCHANGED <<bids, nCalls>>

\* const bids = await storage.getBidsForRequest(requestId); with no bid the
\* loop is skipped and res.json(request) answers 200.
AssignGetBids(a) ==
    /\ UNCHANGED others
    /\ calls[a].op = "assign"
    /\ calls[a].pc = "bids"
    /\ LET found == getBidsForRequest(bids, calls[a].rid) IN
        IF found = <<>>
        THEN /\ calls' = AssignRespond(a, calls)
             /\ resp' = AssignResp(a)
        ELSE /\ calls' = [calls EXCEPT ![a].pc = "loop", ![a].todo = found]
             /\ resp' = NoResp
    /\ pre' = KeepPre(a)
    /\ UNCHANGED <<requests, bids, nCalls>>

\* One turn of the loop: await storage.updateBidStatus(bid.id, ...); after the
\* last bid res.json(request) answers 200.
AssignUpdateBid(a) ==
    /\ UNCHANGED others
    /\ calls[a].op = "assign"
    /\ calls[a].pc = "loop"
    /\ LET id == Head(calls[a].todo) IN
        bids' = updateBidStatus(
                    bids, id, AssignBidStatus(bids[id], calls[a].driverId))
    /\ IF Tail(calls[a].todo) = <<>>
       THEN /\ calls' = AssignRespond(a, calls)
            /\ resp' = AssignResp(a)
       ELSE /\ calls' = [calls EXCEPT ![a].todo = Tail(@)]
            /\ resp' = NoResp
    /\ pre' = KeepPre(a)
    /\ UNCHANGED <<requests, nCalls>>

\* PATCH /api/transport-requests/:id/status by session a.  The read that
\* decides 404 and the single UPDATE are one step: rows are never deleted, so
\* nothing another session does between the two changes the outcome.
UpdateStatus(a, requestId, status) ==
    /\ UNCHANGED others
    /\ ~InFlight(a)
    /\ LET code == IF AdminCheck(a) # 200 THEN AdminCheck(a)
                   ELSE StatusCheck(requests, requestId, status)
       IN
        /\ requests' = IF code = 200
                       THEN updateTransportRequestStatus(
                                requests, requestId, status, Null)
                       ELSE requests
        /\ resp' = [Answer("status", a, requestId, code, <<>>)
                        EXCEPT !.status = status]
    /\ nCalls' = IF AdminCheck(a) = 200 THEN nCalls + 1 ELSE nCalls
    /\ pre' = NoPre
    /\ UNCHANGED <<bids, calls>>

\* PATCH /api/transport-requests/:id/reassign by session a, up to the status
\* check on the row storage.getTransportRequestById returned.
ReassignStart(a, requestId) ==
    /\ UNCHANGED others
    /\ ~InFlight(a)
    /\ LET code == IF AdminCheck(a) # 200 THEN AdminCheck(a)
                   ELSE ReassignCheck(requests, requestId)
       IN
        IF code = 200
        THEN /\ calls' = [calls EXCEPT ![a] =
                    [Idle EXCEPT !.op = "reassign", !.pc = "write",
                                 !.rid = requestId]]
             /\ resp' = NoResp
        ELSE /\ calls' = calls
             /\ resp' = Answer("reassign", a, requestId, code, <<>>)
    /\ nCalls' = IF AdminCheck(a) = 200 THEN nCalls + 1 ELSE nCalls
    /\ pre' = [by |-> a, requests |-> requests, bids |-> bids]
    /\ UNCHANGED <<requests, bids>>

\* storage.reassignTransportRequest, first statement.
ReassignWrite(a) ==
    /\ UNCHANGED others
    /\ calls[a].op = "reassign"
    /\ calls[a].pc = "write"
    /\ requests' = reassignRequestRow(requests, calls[a].rid)
    /\ calls' = [calls EXCEPT ![a].pc = "rbids"]
    /\ pre' = KeepPre(a)
    /\ resp' = NoResp
    /\ UNCHANGED <<bids, nCalls>>

\* storage.reassignTransportRequest, second statement, then res.json.
ReassignBids(a) ==
    /\ UNCHANGED others
    /\ calls[a].op = "reassign"
    /\ calls[a].pc = "rbids"
    /\ bids' = reassignRejectBids(bids, calls[a].rid)
    /\ calls' = [calls EXCEPT ![a] = Idle]
    /\ resp' = Answer("reassign", a, calls[a].rid, 200, <<>>)
    /\ pre' = KeepPre(a)
    /\ UNCHANGED <<requests, nCalls>>

\* POST /api/auth/register from browser, with req.body = body.  The lookup
\* and the insert are one step: users.email is unique, so a second insert of
\* an email fails and is answered 400 like the lookup that finds the row.
Register(browser, body) ==
    /\ LET code == RegisterCheck(users, body) IN
        /\ users' = IF code = 200
                    THEN createUser(users, RegisterValues(body))
                    ELSE users
        /\ sessions' = IF code = 200
                       THEN [sessions EXCEPT ![browser] = Len(users) + 1]
                       ELSE sessions
        /\ event' = [op |-> "register", by |-> browser, code |-> code]
    /\ UNCHANGED <<market, gps>>

\* POST /api/auth/login from browser.
Login(browser, body) ==
    /\ LET found == {u \in getUserByEmail(users, body.email) :
                         verifyPassword(body.password, users[u].password)}
       IN
        /\ sessions' = IF found # {}
                       THEN [sessions EXCEPT
                                ![browser] = CHOOSE u \in found : TRUE]
                       ELSE sessions
        /\ event' = [op |-> "login", by |-> browser,
                     code |-> IF found # {} THEN 200 ELSE 401]
    /\ UNCHANGED <<market, users, gps>>

\* POST /api/auth/logout from browser: req.session.destroy.
Logout(browser) ==
    /\ sessions' = [sessions EXCEPT ![browser] = Null]
    /\ event' = [op |-> "logout", by |-> browser, code |-> 200]
    /\ UNCHANGED <<market, users, gps>>

\* One step of the POST /api/gps-tracking that driver d sent for the request
\* of call: the step of PublishSteps that call.pc names.
Publish(d, call) ==
    /\ LET step == PublishSteps[call.pc]
           sample == IF call.row \in DOMAIN gpsTracking
                     THEN GpsRow(gpsTracking, call.row)
                     ELSE [requestId |-> call.requestId, driverId |-> d,
                           timestamp |-> Null, id |-> Null]
       IN
        /\ IF step = "append"
           THEN /\ gpsTracking' = createGpsTracking(
                       gpsTracking,
                       [requestId |-> call.requestId, driverId |-> d], now)
                /\ UNCHANGED sockets
           ELSE /\ sockets' = Broadcast(sockets, subscriptions,
                                        LocationUpdate(sample))
                /\ UNCHANGED gpsTracking
        /\ ingest' = [ingest EXCEPT ![d] =
               IF call.pc = Len(PublishSteps) THEN IdleIngest
               ELSE [call EXCEPT
                        !.pc = @ + 1,
                        !.row = IF step = "append"
                                THEN Len(gpsTracking) + 1 ELSE @]]
        /\ event' = [op |-> step, by |-> d, code |-> 200]
    /\ UNCHANGED <<market, auth, now, subscriptions, trackingMap>>

\* POST /api/gps-tracking {requestId} arrives from driver d and takes its
\* first step.
PostGpsTracking(d, requestId) ==
    /\ ingest[d] = IdleIngest
    /\ Publish(d, [pc |-> 1, requestId |-> requestId, row |-> Null])

\* The handler of driver d takes its next step.
PublishNext(d) ==
    /\ ingest[d] # IdleIngest
    /\ Publish(d, ingest[d])

\* The clock of the database advances.
Tick ==
    /\ now' = now + 1
    /\ event' = [op |-> "tick", by |-> Null, code |-> Null]
    /\ UNCHANGED <<market, auth, gpsTracking, ingest, subscriptions, sockets,
                   trackingMap>>

\* The hub receives {type: subscribe_tracking, requestId} on connection s and
\* records the interest.
HubSubscribe(s) ==
    /\ sockets[s].connected
    /\ sockets[s].outbox # <<>>
    /\ subscriptions' =
           subscriptions \cup {<<s, Head(sockets[s].outbox).requestId>>}
    /\ sockets' = [sockets EXCEPT ![s].outbox = Tail(@)]
    /\ event' = [op |-> "subscribe", by |-> s, code |-> Null]
    /\ UNCHANGED <<market, auth, gpsTracking, now, ingest, trackingMap>>

\* The hub sees that connection s is gone: it is unsubscribed from everything.
HubDisconnect(s) ==
    /\ sockets[s].connected
    /\ sockets[s].readyState = "closed"
    /\ subscriptions' = {p \in subscriptions : p[1] # s}
    /\ sockets' = [sockets EXCEPT ![s].connected = FALSE, ![s].outbox = <<>>]
    /\ event' = [op |-> "disconnect", by |-> s, code |-> Null]
    /\ UNCHANGED <<market, auth, gpsTracking, now, ingest, trackingMap>>

\* websocket.onopen of socket s: the subscription is sent.
SocketOpen(s) ==
    /\ sockets[s].readyState = "connecting"
    /\ sockets' = [sockets EXCEPT
           ![s].readyState = "open",
           ![s].outbox = Append(@, [type |-> "subscribe_tracking",
                                    requestId |-> sockets[s].requestId])]
    /\ event' = [op |-> "open", by |-> s, code |-> Null]
    /\ UNCHANGED <<market, auth, gpsTracking, now, ingest, subscriptions,
                   trackingMap>>

\* websocket.onmessage of socket s with the oldest message waiting.
SocketMessage(s) ==
    /\ sockets[s].readyState = "open"
    /\ sockets[s].inbox # <<>>
    /\ trackingMap' = [trackingMap EXCEPT
           !.liveLocation = onmessage(@, sockets[s].requestId,
                                      Head(sockets[s].inbox))]
    /\ sockets' = [sockets EXCEPT ![s].inbox = Tail(@)]
    /\ event' = [op |-> "message", by |-> s, code |-> Null]
    /\ UNCHANGED <<market, auth, gpsTracking, now, ingest, subscriptions>>

\* websocket.onclose of socket s, the connection being lost: what waited in
\* it is lost, and the component opens no other socket.
SocketClose(s) ==
    /\ sockets[s].readyState # "closed"
    /\ sockets' = [sockets EXCEPT ![s].readyState = "closed",
                                  ![s].inbox = <<>>]
    /\ event' = [op |-> "close", by |-> s, code |-> Null]
    /\ UNCHANGED <<market, auth, gpsTracking, now, ingest, subscriptions,
                   trackingMap>>

\* The parent renders the component with another requestId: the effect's
\* cleanup closes the socket, the effect creates the next one, and the query
\* has no data yet for its new key.
SetRequestId(requestId) ==
    /\ requestId # trackingMap.requestId
    /\ sockets' = Append(
           [sockets EXCEPT ![trackingMap.ws].readyState = "closed",
                           ![trackingMap.ws].inbox = <<>>],
           NewSocket(requestId))
    /\ trackingMap' = [trackingMap EXCEPT
           !.requestId = requestId,
           !.ws = Len(sockets) + 1,
           !.trackingHistory = <<>>]
    /\ event' = [op |-> "requestId", by |-> Null, code |-> Null]
    /\ UNCHANGED <<market, auth, gpsTracking, now, ingest, subscriptions>>

\* The query of the component refetches (refetchInterval: 30000) and is
\* answered with the history of its request.
Poll ==
    /\ \E h \in getGpsTrackingForRequest(gpsTracking, trackingMap.requestId) :
           trackingMap' = [trackingMap EXCEPT !.trackingHistory = h]
    /\ event' = [op |-> "poll", by |-> Null, code |-> 200]
    /\ UNCHANGED <<market, auth, gpsTracking, now, ingest, subscriptions,
                   sockets>>

\* Clients post requests and drivers bid, while the tables hold fewer than
\* maxRequests and maxBids rows.
Market(maxRequests, maxBids) ==
    \/ \E c \in FormClients, body \in FormBodies :
          Len(requests) < maxRequests /\ CreateRequest(c, body)
    \/ \E d \in Drivers, body \in FormBidBodies(maxRequests) :
          Len(bids) < maxBids /\ SubmitBid(d, body)

\* Users of every role post requests, with any body, and bid.
Public(maxRequests, maxBids) ==
    \/ \E u \in Users, body \in CreateBodies :
          Len(requests) < maxRequests /\ CreateRequest(u, body)
    \/ \E u \in Users, body \in FormBidBodies(maxRequests) :
          Len(bids) < maxBids /\ SubmitBid(u, body)

\* Clients post requests with budgets in and out of range, and drivers bid
\* with any body.
Submitting(maxRequests, maxBids) ==
    \/ \E c \in Clients, body \in RangeBodies :
          Len(requests) < maxRequests /\ CreateRequest(c, body)
    \/ \E u \in Drivers, body \in BidBodies(maxRequests) :
          Len(bids) < maxBids /\ SubmitBid(u, body)

\* Users of every role read requests and bids.
Reading(maxRequests) ==
    \/ \E u \in Users : ListRequests(u)
    \/ \E u \in Users, r \in RequestIdInputs(maxRequests) : GetRequest(u, r)
    \/ \E u \in Users, r \in RequestIdInputs(maxRequests) :
          ListBidsForRequest(u, r)
    \/ \E u \in Users : ListBidsForDriver(u)

\* The assign handler, at most maxCalls admin calls being invoked.
Assigning(maxRequests, maxCalls) ==
    \/ \E a \in Admins, r \in RequestIdInputs(maxRequests),
          d \in DriverIdInputs :
          nCalls < maxCalls /\ AssignInvoke(a, r, d)
    \/ \E a \in Admins : AssignWrite(a)
    \/ \E a \in Admins : AssignGetBids(a)
    \/ \E a \in Admins : AssignUpdateBid(a)

\* The status and reassign handlers, at most maxCalls admin calls being invoked.
Tracking(maxRequests, maxCalls) ==
    \/ \E a \in Admins, r \in RequestIdInputs(maxRequests),
          s \in StatusInputs :
          nCalls < maxCalls /\ UpdateStatus(a, r, s)
    \/ \E a \in Admins, r \in RequestIdInputs(maxRequests) :
          nCalls < maxCalls /\ ReassignStart(a, r)
    \/ \E a \in Admins : ReassignWrite(a)
    \/ \E a \in Admins : ReassignBids(a)

\* The status handler, at most maxCalls admin calls being invoked.
Updating(maxRequests, maxCalls) ==
    \E a \in Admins, r \in RequestIdInputs(maxRequests), s \in StatusInputs :
        nCalls < maxCalls /\ UpdateStatus(a, r, s)

\* Clients, drivers and users of other roles call the admin handlers.
Intruding(maxRequests) ==
    \/ \E u \in Users \ Admins, r \in RequestIdInputs(maxRequests),
          d \in DriverIdInputs : AssignInvoke(u, r, d)
    \/ \E u \in Users \ Admins, r \in RequestIdInputs(maxRequests),
          s \in StatusInputs : UpdateStatus(u, r, s)
    \/ \E u \in Users \ Admins, r \in RequestIdInputs(maxRequests) :
          ReassignStart(u, r)

\* The reassign handler, at most maxCalls admin calls being invoked.
Reassigning(maxRequests, maxCalls) ==
    \/ \E a \in Admins, r \in RequestIdInputs(maxRequests) :
          nCalls < maxCalls /\ ReassignStart(a, r)
    \/ \E a \in Admins : ReassignWrite(a)
    \/ \E a \in Admins : ReassignBids(a)

Next ==
    \/ Market(MaxRequests, MaxBids)
    \/ Assigning(MaxRequests, MaxCalls)
    \/ Tracking(MaxRequests, MaxCalls)

Spec == Init /\ [][Next]_vars

NextAssign ==
    \/ Market(WideRequests, WideBids)
    \/ Assigning(WideRequests, WideCalls)

SpecAssign == Init /\ [][NextAssign]_vars

NextDeep ==
    \/ Market(DeepRequests, DeepBids)
    \/ Assigning(DeepRequests, DeepCalls)
    \/ Tracking(DeepRequests, DeepCalls)

SpecDeep == Init /\ [][NextDeep]_vars

NextReopen ==
    \/ Market(ReopenRequests, ReopenBids)
    \/ Assigning(ReopenRequests, ReopenCalls)
    \/ Reassigning(ReopenRequests, ReopenCalls)

SpecReopen == Init /\ [][NextReopen]_vars

NextViews ==
    \/ Public(ViewRequests, ViewBids)
    \/ Updating(ViewRequests, ViewCalls)
    \/ Reading(ViewRequests)

SpecViews == Init /\ [][NextViews]_vars

\* Visitors register, log in and log out, while users holds fewer than maxUsers
\* rows.
Accounts(maxUsers) ==
    \/ \E b \in Browsers, body \in RegisterBodies :
          Len(users) < maxUsers /\ Register(b, body)
    \/ \E b \in Browsers, body \in LoginBodies : Login(b, body)
    \/ \E b \in Browsers : Logout(b)

NextAuth == Accounts(MaxUsers)

SpecAuth == Init /\ [][NextAuth]_vars

\* Drivers report positions, at most maxSamples of them, no socket holding
\* more than maxInbox messages.
Publishing(maxSamples, maxInbox) ==
    \/ \E d \in Drivers, r \in TrackedRequests :
          /\ Len(gpsTracking)
                 + Cardinality({e \in Drivers : ingest[e] # IdleIngest})
                 < maxSamples
          /\ PostGpsTracking(d, r)
    \/ \E d \in Drivers :
          /\ \A s \in DOMAIN sockets : Len(sockets[s].inbox) < maxInbox
          /\ PublishNext(d)

\* The hub's side of the connections.
Hub ==
    \/ \E s \in DOMAIN sockets : HubSubscribe(s)
    \/ \E s \in DOMAIN sockets : HubDisconnect(s)

\* The tracking view: its sockets, its prop and its query.
Viewing(maxSockets) ==
    \/ \E s \in DOMAIN sockets : SocketOpen(s)
    \/ \E s \in DOMAIN sockets : SocketMessage(s)
    \/ \E s \in DOMAIN sockets : SocketClose(s)
    \/ \E r \in TrackedRequests :
          Len(sockets) < maxSockets /\ SetRequestId(r)
    \/ Poll

NextGps ==
    \/ Publishing(MaxSamples, MaxInbox)
    \/ Hub
    \/ Viewing(MaxSockets)
    \/ now < MaxTime /\ Tick

SpecGps == Init /\ [][NextGps]_vars

NextRoles ==
    \/ Submitting(RoleRequests, RoleBids)
    \/ Intruding(RoleRequests)
    \/ Updating(RoleRequests, RoleCalls)

SpecRoles == Init /\ [][NextRoles]_vars

\* ------------------------------------------------------------------- types
TypeOK ==
    /\ \A i \in DOMAIN requests :
          /\ requests[i].clientId \in Clients
          /\ requests[i].budget \in BudgetInputs \cup {0}
          /\ requests[i].status \in validStatuses
          /\ requests[i].assignedDriverId \in Drivers \cup {Null}
    /\ \A i \in DOMAIN bids :
          /\ bids[i].requestId \in Nat \ {0}
          /\ bids[i].driverId \in Drivers
          /\ bids[i].status \in {"pending", "accepted", "rejected"}
    /\ \A a \in Admins :
          /\ calls[a].op \in {"none", "assign", "reassign"}
          /\ calls[a].pc \in {"idle", "write", "bids", "loop", "rbids"}
          /\ calls[a].pc = "loop" => calls[a].todo # <<>>
    /\ nCalls \in Nat

\* ------------------------------------------------------------------ claims
\* The bids of request r in the table bs.
BidsOf(bs, r) == {b \in DOMAIN bs : bs[b].requestId = r}

\* The last step ended an assign call that no step of another session
\* interleaved with: pre holds the tables as they were at its invocation.
AssignRanAlone ==
    /\ resp.op = "assign"
    /\ pre.by # 0

\* C1: in every reachable state a request has a non-null assignedDriverId if
\* and only if its status is assigned, in_progress or completed.
C1_DriverIffActive ==
    \A r \in DOMAIN requests :
        (requests[r].assignedDriverId # Null)
            <=> (requests[r].status \in {"assigned", "in_progress", "completed"})

\* C2: in every reachable state, for every request whose status is assigned,
\* exactly one of its bids is accepted and every other bid of it is rejected.
C2_OneAcceptedBid ==
    \A r \in DOMAIN requests :
        requests[r].status = "assigned" =>
            /\ Cardinality({b \in BidsOf(bids, r) :
                               bids[b].status = "accepted"}) = 1
            /\ \A b \in BidsOf(bids, r) :
                   bids[b].status \in {"accepted", "rejected"}

\* C3: the writes of the assign handler are one unit: while a call that
\* accepts the bid of a driver on a pending request is under way, even with no
\* other session taking a step, no state shows the request as assigned with
\* one of the bids it had at the invocation still pending.
C3_AssignAllOrNothing ==
    \A a \in Admins :
        (/\ calls[a].op = "assign"
         /\ calls[a].pc \in {"bids", "loop"}
         /\ pre.by = a
         /\ StatusOf(pre.requests, calls[a].rid) = "pending"
         /\ HasBid(pre.bids, calls[a].rid, calls[a].driverId))
        => ~(/\ StatusOf(requests, calls[a].rid) = "assigned"
             /\ \E b \in BidsOf(pre.bids, calls[a].rid) :
                    bids[b].status = "pending")

\* C4: of two assign calls racing for the same pending request with different
\* drivers exactly one succeeds: the call that responds after its rival
\* succeeded fails, and the request is left with the winner's driver.
C4_OneWinner ==
    (resp.op = "assign" /\ resp.lostTo # Null) =>
        /\ resp.code # 200
        /\ requests[resp.rid].assignedDriverId = resp.lostTo

\* Driver d holds exactly one bid for request r in the table bs, and it is
\* pending.
OnePendingBid(bs, r, d) ==
    /\ Cardinality({b \in BidsOf(bs, r) : bs[b].driverId = d}) = 1
    /\ \A b \in BidsOf(bs, r) : bs[b].driverId = d => bs[b].status = "pending"

\* The last step ended acceptBid(r, d1), run with no step of another session
\* in between, on a request that was pending with one pending bid of each of
\* d1 and d2.
C5_Case(r, d1, d2) ==
    /\ d1 # d2
    /\ AssignRanAlone
    /\ resp.rid = r
    /\ resp.driverId = d1
    /\ StatusOf(pre.requests, r) = "pending"
    /\ OnePendingBid(pre.bids, r, d1)
    /\ OnePendingBid(pre.bids, r, d2)

C6_AssignNotFound ==
    (AssignRanAlone /\ ~HasBid(pre.bids, resp.rid, resp.driverId)) =>
        /\ resp.code = 404
        /\ requests = pre.requests
        /\ bids = pre.bids

\* C7: acceptBid on a request that is not pending (for a driver who has a bid
\* for it) fails and leaves the request, its driver and every bid unchanged.
C7_AssignOnlyFromPending ==
    (/\ AssignRanAlone
     /\ StatusOf(pre.requests, resp.rid) \in validStatuses \ {"pending"}
     /\ HasBid(pre.bids, resp.rid, resp.driverId)) =>
        /\ resp.code \in {400, 409}
        /\ requests = pre.requests
        /\ bids = pre.bids

\* The changes of status the status endpoint may make, reassignment being the
\* only way back to pending.
TransitionTable ==
    {<<"pending", "assigned">>, <<"assigned", "in_progress">>,
     <<"in_progress", "completed">>, <<"assigned", "cancelled">>,
     <<"in_progress", "cancelled">>}

\* The step is a whole call of the status endpoint.
StatusStep == nCalls' = nCalls + 1 /\ resp'.op = "status"

\* C8: every change of status made by updateStatus is in the transition table,
\* and completed and cancelled are terminal: the status of a request that has
\* reached either never changes again.
C8_TransitionTable ==
    [][\A r \in DOMAIN requests :
          /\ (StatusStep /\ requests'[r].status # requests[r].status) =>
                 <<requests[r].status, requests'[r].status>> \in TransitionTable
          /\ requests[r].status \in {"completed", "cancelled"} =>
                 requests'[r].status = requests[r].status]_vars

\* The step is a call of the reassign endpoint answered at its checks.
ReassignRefusal == nCalls' = nCalls + 1 /\ resp'.op = "reassign"

\* C9 as claimed: updateStatus and reassign called with a requestId that does
\* not exist answer not found and change nothing, and updateStatus with a
\* status outside the five is rejected with no change.
C9_UnknownIdNotFound ==
    [][/\ ((StatusStep \/ ReassignRefusal) /\ resp'.rid \notin DOMAIN requests)
            => (resp'.code = 404 /\ UNCHANGED <<requests, bids>>)
       /\ (StatusStep /\ resp'.status \notin validStatuses)
            => (resp'.code # 200 /\ UNCHANGED <<requests, bids>>)]_vars

\* C9 as amended: updateStatus with one of the five statuses, and reassign,
\* called with a requestId that does not exist answer 404 and change nothing;
\* updateStatus with a status outside the five answers 400 and changes
\* nothing, whether or not the request exists.
C9_UnknownIdOrStatus ==
    [][/\ (/\ StatusStep \/ ReassignRefusal
           /\ resp'.rid \notin DOMAIN requests
           /\ resp'.op = "status" => resp'.status \in validStatuses)
            => (resp'.code = 404 /\ UNCHANGED <<requests, bids>>)
       /\ (StatusStep /\ resp'.status \notin validStatuses)
            => (resp'.code = 400 /\ UNCHANGED <<requests, bids>>)]_vars

\* A status call and a reassign call answered 404, with rows in both tables.
C9_Witness ==
    /\ resp.op \in {"status", "reassign"}
    /\ resp.code = 404
    /\ resp.rid \notin DOMAIN requests
    /\ requests # <<>>
    /\ bids # <<>>

\* C10: reassign succeeds only from assigned or in_progress: a request that
\* is pending, completed or cancelled when the write of a reassign call is
\* applied is left as it is, whatever ran since the handler's check.
C10_ReassignOnlyFromActive ==
    [][\A a \in Admins :
          (/\ calls[a].op = "reassign"
           /\ calls[a].pc = "write"
           /\ calls'[a].pc = "rbids"
           /\ StatusOf(requests, calls[a].rid) \notin {"assigned", "in_progress"})
          => requests' = requests]_vars

\* The last step ended a reassign call that went through its checks and that
\* no step of another session interleaved with.
ReassignRanAlone ==
    /\ resp.op = "reassign"
    /\ resp.code = 200
    /\ pre.by = resp.by

\* C11: a successful reassign(R), run to completion, leaves R pending with no
\* driver and every bid of R rejected, and leaves every other request and
\* every bid of another request as they were.
C11_ReassignResets ==
    ReassignRanAlone =>
        /\ requests[resp.rid] =
               [pre.requests[resp.rid] EXCEPT !.status = "pending",
                                              !.assignedDriverId = Null]
        /\ DOMAIN requests = DOMAIN pre.requests
        /\ \A j \in DOMAIN requests \ {resp.rid} : requests[j] = pre.requests[j]
        /\ DOMAIN bids = DOMAIN pre.bids
        /\ \A b \in DOMAIN bids :
               bids[b] = IF pre.bids[b].requestId = resp.rid
                         THEN [pre.bids[b] EXCEPT !.status = "rejected"]
                         ELSE pre.bids[b]

\* A reassign call ended on a request that had an accepted and a rejected
\* bid, a pending bid of another request being in the table.
C11_Witness ==
    /\ ReassignRanAlone
    /\ \E b1, b2 \in BidsOf(pre.bids, resp.rid) :
           /\ pre.bids[b1].status = "accepted"
           /\ pre.bids[b2].status = "rejected"
    /\ \E b \in DOMAIN bids :
           /\ bids[b].requestId \in DOMAIN requests \ {resp.rid}
           /\ bids[b].status = "pending"

\* C12: after a reassign(R) run to completion every bid of R is rejected;
\* repeating the reassignment (the handler, which refuses it, or the storage
\* method itself) changes no bid and no request; and a bid a driver submits
\* for R as the next step is answered 200 and stored as a new pending bid, the
\* other bids staying as they are.
C12_ReassignIdempotent ==
    [][ReassignRanAlone =>
          /\ \A b \in BidsOf(bids, resp.rid) : bids[b].status = "rejected"
          /\ ReassignCheck(requests, resp.rid) = 400
          /\ reassignRejectBids(bids, resp.rid) = bids
          /\ reassignRequestRow(requests, resp.rid) = requests
          /\ (/\ resp'.op = "bid"
              /\ resp'.rid = resp.rid
              /\ RoleOf(resp'.by) = "driver")
             => /\ resp'.code = 200
                /\ Len(bids') = Len(bids) + 1
                /\ SubSeq(bids', 1, Len(bids)) = bids
                /\ bids'[Len(bids')].requestId = resp.rid
                /\ bids'[Len(bids')].driverId = resp'.by
                /\ bids'[Len(bids')].status = "pending"]_vars

\* A reassign call ended on a request that had an accepted bid, and the table
\* of bids has room for the bid a driver submits next.
C12_Witness ==
    /\ ReassignRanAlone
    /\ \E b \in BidsOf(pre.bids, resp.rid) : pre.bids[b].status = "accepted"
    /\ requests[resp.rid].status = "pending"
    /\ Len(bids) < ReopenBids

\* C13: a bid that has been rejected is never later set to accepted: after a
\* reassignment an assign can accept only a bid submitted since.
C13_RejectedStaysRejected ==
    [][\A b \in DOMAIN bids :
          bids[b].status = "rejected" => bids'[b].status # "accepted"]_vars

\* C14: submitBid for a request that is assigned, in_progress, completed or
\* cancelled at the time of the call fails with a forbidden error and creates
\* no bid.
C14_BidOnlyOnPending ==
    [][(/\ resp'.op = "bid"
        /\ StatusOf(requests, resp'.rid) \in validStatuses \ {"pending"})
          => (resp'.code = 403 /\ bids' = bids)]_vars

\* C15: in every reachable state every bid of a request whose status is
\* pending has status pending.  Checked in its weakest form: while no admin
\* call is under way no bid of a pending request is accepted (a reassignment
\* leaves the bids of the request it reopens rejected, not pending).
C15_PendingBidsOfPending ==
    (\A a \in Admins : ~InFlight(a)) =>
        \A r \in DOMAIN requests :
            requests[r].status = "pending" =>
                \A b \in BidsOf(bids, r) : bids[b].status # "accepted"

\* The table reqs with the budgets of alt in place of its own.
WithBudgets(reqs, alt) ==
    [i \in DOMAIN reqs |-> [reqs[i] EXCEPT !.budget = alt[i]]]

\* C16: no response to a driver carries a budget: the rows of the request list
\* and of the single-request view sent to a driver have no budget property,
\* and for every driver both views answer the same on the store and on any
\* store that differs from it in budgets only.
C16_NoBudgetForDrivers ==
    /\ (resp.op \in {"list", "get"} /\ RoleOf(resp.by) = "driver") =>
           /\ \A j \in DOMAIN resp.body : "budget" \notin DOMAIN resp.body[j]
           /\ resp.op = "list" => resp = ListRequestsResponse(requests, resp.by)
           /\ resp.op = "get" =>
                  resp = GetRequestResponse(requests, resp.by, resp.rid)
    /\ \A d \in Drivers, alt \in [DOMAIN requests -> BudgetInputs] :
           /\ ListRequestsResponse(WithBudgets(requests, alt), d)
                  = ListRequestsResponse(requests, d)
           /\ \A r \in RequestIdInputs(ViewRequests) :
                  GetRequestResponse(WithBudgets(requests, alt), d, r)
                      = GetRequestResponse(requests, d, r)

\* A driver was sent the list of two pending requests of different budgets.
C16_Witness ==
    /\ resp.op = "list"
    /\ RoleOf(resp.by) = "driver"
    /\ resp.code = 200
    /\ Len(resp.body) = 2
    /\ requests[1].budget # requests[2].budget

\* The ids of the rows of a response, as a set.
IdsOf(body) == {body[j].id : j \in DOMAIN body}

\* C17: the request list answers a client with exactly the requests whose
\* clientId is the caller's id, a driver with exactly the pending requests, an
\* admin with every request, each once, and a caller of any other role with
\* 403 and no row.
C17_ListVisibility ==
    resp.op = "list" =>
        LET role == RoleOf(resp.by) IN
        /\ role \in {"client", "driver", "admin"} =>
               /\ resp.code = 200
               /\ Cardinality(IdsOf(resp.body)) = Len(resp.body)
               /\ \A j \in DOMAIN resp.body :
                      \A k \in DOMAIN resp.body[j] \ {"id"} :
                          resp.body[j][k] = requests[resp.body[j].id][k]
        /\ role = "client" =>
               IdsOf(resp.body) =
                   {r \in DOMAIN requests : requests[r].clientId = resp.by}
        /\ role = "driver" =>
               IdsOf(resp.body) =
                   {r \in DOMAIN requests : requests[r].status = "pending"}
        /\ role = "admin" => IdsOf(resp.body) = DOMAIN requests
        /\ role \notin {"client", "driver", "admin"} =>
               (resp.code = 403 /\ resp.body = <<>>)

\* A client was sent their own request and not the request of the other
\* client, one of the two requests being closed to drivers.
C17_Witness ==
    /\ resp.op = "list"
    /\ RoleOf(resp.by) = "client"
    /\ Len(resp.body) = 1
    /\ Len(requests) = 2
    /\ \E r \in DOMAIN requests : requests[r].status # "pending"

\* C18: the single-request view follows the rule of the list: a client is
\* sent a request only if its clientId is the caller's id, a driver only if
\* its status is pending; a driver asking for an assigned, in_progress,
\* completed or cancelled request is refused and sent no row.
C18_GetVisibility ==
    resp.op = "get" =>
        /\ (RoleOf(resp.by) = "client" /\ resp.code = 200) =>
               requests[resp.rid].clientId = resp.by
        /\ (/\ RoleOf(resp.by) = "driver"
            /\ StatusOf(requests, resp.rid) \in validStatuses \ {"pending"})
               => (resp.code \in {403, 404} /\ resp.body = <<>>)

\* The caller of the last response may not list the bids of its request: a
\* driver, or a client who is not the client of the request.
MayNotListBids ==
    \/ RoleOf(resp.by) = "driver"
    \/ /\ RoleOf(resp.by) = "client"
       /\ \A r \in getTransportRequestById(requests, resp.rid) :
              r.clientId # resp.by

\* The driver-scoped listing answers a driver with exactly the bids whose
\* driverId is the caller's id, and any other caller with 403.
OwnBidsOnly ==
    resp.op = "mybids" =>
        IF RoleOf(resp.by) = "driver"
        THEN /\ resp.code = 200
             /\ Cardinality(IdsOf(resp.body)) = Len(resp.body)
             /\ IdsOf(resp.body) =
                    {b \in DOMAIN bids : bids[b].driverId = resp.by}
             /\ \A j \in DOMAIN resp.body :
                    \A k \in DOMAIN resp.body[j] \ {"id"} :
                        resp.body[j][k] = bids[resp.body[j].id][k]
        ELSE resp.code = 403 /\ resp.body = <<>>

\* C19 as claimed: listing the bids of a request is always answered with a
\* forbidden error, and no bid, for a driver and for a client who does not own
\* the request; the driver-scoped listing returns exactly the caller's bids.
C19_BidsForbidden ==
    /\ (resp.op = "bids" /\ MayNotListBids) =>
           (resp.code = 403 /\ resp.body = <<>>)
    /\ OwnBidsOnly

\* C19 as amended: a driver, and a client who does not own the request, are
\* sent no bid by the listing of a request: the answer is 403 when the request
\* exists and 404 when it does not; the driver-scoped listing returns exactly
\* the caller's bids.
C19_BidsRefused ==
    /\ (resp.op = "bids" /\ MayNotListBids) =>
           /\ resp.body = <<>>
           /\ resp.code = IF resp.rid \in DOMAIN requests THEN 403 ELSE 404
    /\ OwnBidsOnly

\* A driver was refused the bids of a request that has one.
C19_Witness ==
    /\ resp.op = "bids"
    /\ RoleOf(resp.by) = "driver"
    /\ resp.code = 403
    /\ BidsOf(bids, resp.rid) # {}

\* C20: createRequest succeeds only for a client, and then stores one new
\* request with status pending, no driver and the caller as its client,
\* whatever the body carries; any other call is refused and stores nothing.
C20_CreateByClientOnly ==
    resp.op = "create" =>
        /\ pre.by = resp.by
        /\ bids = pre.bids
        /\ IF resp.code = 200
           THEN /\ RoleOf(resp.by) = "client"
                /\ resp.rid = Len(pre.requests) + 1
                /\ DOMAIN requests = 1..resp.rid
                /\ \A r \in DOMAIN pre.requests : requests[r] = pre.requests[r]
                /\ requests[resp.rid].status = "pending"
                /\ requests[resp.rid].assignedDriverId = Null
                /\ requests[resp.rid].clientId = resp.by
           ELSE requests = pre.requests
        /\ RoleOf(resp.by) # "client" => resp.code = 403

\* A client's request was stored as the second one, pending, from a body that
\* carried status: completed.
C20_Witness ==
    /\ resp.op = "create"
    /\ resp.code = 200
    /\ resp.status = "completed"
    /\ resp.rid = 2
    /\ requests[2].status = "pending"
    /\ requests[1].clientId # requests[2].clientId

\* C21 as claimed: a create with a budget that is not positive and a bid with
\* an amount that is not positive are refused and store nothing, so no stored
\* request has a budget <= 0 and no stored bid an amount <= 0.
C21_PositiveOnly ==
    /\ \A r \in DOMAIN requests : requests[r].budget > 0
    /\ \A b \in DOMAIN bids : bids[b].amount > 0

AdminOps == {"assign", "status", "reassign"}

C27_AcceptedIsAssigned ==
    (\A a \in Admins : ~InFlight(a)) =>
        \A b \in DOMAIN bids :
            (bids[b].status = "accepted"
                 /\ bids[b].requestId \in DOMAIN requests) =>
                requests[bids[b].requestId].assignedDriverId
                    = bids[b].driverId

C29_BidsReferToRows ==
    \A b \in DOMAIN bids :
        /\ bids[b].requestId \in DOMAIN requests
        /\ RoleOf(bids[b].driverId) = "driver"

\* C26 as claimed: a step that stores a user with role admin is a step of a
\* caller whose session is that of an admin.
C26_AdminByAdminOnly ==
    [][(/\ Len(users') > Len(users)
        /\ users'[Len(users')].role = "admin")
       => /\ sessions[event'.by] \in DOMAIN users
          /\ users[sessions[event'.by]].role = "admin"]_vars

\* The location updates that were broadcast and not lost: those waiting in a
\* socket and the one the view holds.
Pushed ==
    UNION {{sockets[s].inbox[k] : k \in DOMAIN sockets[s].inbox} :
               s \in DOMAIN sockets}
        \cup ({trackingMap.liveLocation} \ {NoLocation})

\* C23: a location update that was broadcast is a row of the log, and the
\* latest sample read for its request is that sample or a newer one.
C23_AppendBeforeBroadcast ==
    \A m \in Pushed :
        /\ m.id \in DOMAIN gpsTracking
        /\ LocationUpdate(GpsRow(gpsTracking, m.id)) = m
        /\ \A l \in getLatestGpsTrackingForRequest(gpsTracking, m.requestId) :
               /\ l # <<>>
               /\ l[1].timestamp >= m.timestamp

\* The view received the push of a sample, and the log holds a newer sample
\* of the same request.
C23_Witness ==
    /\ event.op = "message"
    /\ trackingMap.liveLocation # NoLocation
    /\ \E i \in DOMAIN gpsTracking :
           /\ gpsTracking[i].requestId = trackingMap.liveLocation.requestId
           /\ gpsTracking[i].timestamp > trackingMap.liveLocation.timestamp

\* The rows of request r in the log.
SamplesOf(log, r) == {i \in DOMAIN log : log[i].requestId = r}

\* C24: rows of the log are only ever added; the history read of a request
\* returns all rows of that request and no other row, newest first by
\* timestamp, and the latest read returns a row of the request with the
\* greatest timestamp, or nothing when the request has no row; a poll of the
\* view is answered with such a history.
C24_LogReads ==
    /\ [][/\ Len(gpsTracking') >= Len(gpsTracking)
          /\ \A i \in DOMAIN gpsTracking : gpsTracking'[i] = gpsTracking[i]
         ]_vars
    /\ [](\A r \in TrackedRequests :
             /\ \A h \in getGpsTrackingForRequest(gpsTracking, r) :
                    /\ Len(h) = Cardinality(SamplesOf(gpsTracking, r))
                    /\ {h[k].id : k \in DOMAIN h} = SamplesOf(gpsTracking, r)
                    /\ \A k \in DOMAIN h : h[k] = GpsRow(gpsTracking, h[k].id)
                    /\ \A k \in DOMAIN h :
                           k < Len(h) => h[k].timestamp >= h[k + 1].timestamp
             /\ \A l \in getLatestGpsTrackingForRequest(gpsTracking, r) :
                    IF SamplesOf(gpsTracking, r) = {}
                    THEN l = <<>>
                    ELSE /\ Len(l) = 1
                         /\ l[1].id \in SamplesOf(gpsTracking, r)
                         /\ l[1] = GpsRow(gpsTracking, l[1].id)
                         /\ \A i \in SamplesOf(gpsTracking, r) :
                                gpsTracking[i].timestamp <= l[1].timestamp)
    /\ [](event.op = "poll" =>
             trackingMap.trackingHistory \in
                 getGpsTrackingForRequest(gpsTracking, trackingMap.requestId))

\* A poll returned two samples of different times while the log also holds a
\* sample of another request.
C24_Witness ==
    /\ event.op = "poll"
    /\ Len(trackingMap.trackingHistory) >= 2
    /\ trackingMap.trackingHistory[1].timestamp
           > trackingMap.trackingHistory[2].timestamp
    /\ \E i \in DOMAIN gpsTracking :
           gpsTracking[i].requestId # trackingMap.requestId

\* C25 as claimed: when a poll completes after the socket of the view was
\* lost, the location the view displays is at least as recent as every sample
\* of its request the log held.
C25_PollHeals ==
    [][(event'.op = "poll" /\ sockets[trackingMap.ws].readyState = "closed") =>
           \A i \in SamplesOf(gpsTracking, trackingMap.requestId) :
               /\ latestLocation(trackingMap') # NoLocation
               /\ latestLocation(trackingMap').timestamp
                      >= gpsTracking[i].timestamp]_vars

\* C30 as claimed: the location the view displays is a location of the
\* request the view is on.
C30_DisplayedIsCurrent ==
    latestLocation(trackingMap) # NoLocation =>
        latestLocation(trackingMap).requestId = trackingMap.requestId

====
